---- MODULE Spec2Model ----
(***************************************************************************)
(* A model of kmslife: a Game of Life on a bit-packed toroidal grid        *)
(* (src/kmslife.c) rendered through double-buffered KMS dumb buffers       *)
(* (src/drm-utils.c).                                                      *)
(*                                                                         *)
(* A cell plane is a byte array; it is modelled as the set of its set bits,*)
(* a bit being addressed as byte_offset * 8 + bit_number, so that the      *)
(* byte/bit arithmetic of the source (offset = y * pitch + x / 8,          *)
(* mask = BIT(x % 8)) is kept.                                             *)
(***************************************************************************)
EXTENDS Integers, FiniteSets, Sequences, TLC

VARIABLES
    grid,       \* struct grid: width, pitch, height, scale, parents, cells
    plane,      \* the two heap planes grid->parents / grid->cells point to
    ncount,     \* `count' of grid_tick_cell for each cell at the last tick
    pattern,    \* enum pattern: the seeding the driver was asked for
    seed0,      \* the cells that were live when seeding ended
    pc,         \* position of the driver (test harness or main)
    gen,        \* loop iterations completed (main's gen++ starts from an
                \* uninitialised value that nothing reads; this counts from 0)
    framerate,  \* main's framerate option: 0 skips grid_tick
    screen,     \* struct screen: width, height, current
    crtc,       \* the controller: fb scanned out, fb of a pending page flip
    bo,         \* struct dumb_bo of each buffer: ptr, map_count, pitch, size
    dev,        \* the process's mappings: addresses mapped, mmap() calls
    pix,        \* the pixels of each buffer, by byte offset
    written,    \* byte offsets the last grid_draw stored to
    last,       \* the last call made on the screen and what it returned
    calls,      \* screen_swap / screen_flip calls that succeeded / failed
    hist,       \* the calls made on a buffer, oldest first
    done,       \* static bool done: set by signal_handler
    scaleopt,   \* main's local `scale': the value of the -S option
    original_crtc, \* screen->original_crtc: the drmModeGetCrtc snapshot
    sys,        \* the process: exit status, DRM master, teardown calls
    arg         \* the arguments of the seeding call: file, x, y

gridVars == <<grid, plane, ncount, pattern, seed0, gen, framerate>>

drmVars == <<screen, crtc, bo, dev, pix, written, last, calls, hist>>

procVars == <<done, scaleopt, original_crtc, sys, arg>>

vars == <<gridVars, pc, drmVars, procVars>>

\* ---------------------------------------------------------------- bounds
MaxCells == 9       \* most cells of an exhaustively seeded grid
GliderGrid == 16    \* side of the grid of the glider scenario
MaxGen == 4         \* generations run by the harness
NAddr == 2          \* addresses mmap() chooses from
MaxOps == 5         \* calls made on a buffer by the buffer harness
MaxCalls == 5       \* present calls made by the screen harness
MainCells == 4      \* most cells of the grid in a run of main
MaxPx == 4          \* largest width and height of the screen's mode
MaxScale == 2       \* largest scale option
MaxIter == 2        \* iterations of main's loop
RunCells == 2       \* most cells of the grid in a whole run
RunPx == 3          \* largest width and height of the mode in a whole run
SeedW == 9          \* widest grid of the seeding harness
SeedH == 5          \* highest grid of the seeding harness

\* ------------------------------------------------------------- constants
MAP_FAILED == -1    \* (void *) -1
OrigFb == 100       \* original_crtc->buffer_id: not a framebuffer of ours
NoFb == 0           \* no framebuffer
BLACK == "0x00000000"
WHITE == "0xffffffff"

\* --------------------------------------------------------------- helpers
NULL == 0

DIV_ROUND_UP(n, d) == (n + d - 1) \div d

\* BIT(b) tested in byte `off' of plane contents p
Bit(p, off, b) == (off * 8 + b) \in p

\* *ptr |= BIT(b) on byte `off'
SetBit(p, off, b) == p \cup {off * 8 + b}

\* wrap(): the comparisons and additions mix int and unsigned int; for
\* -max <= i < 2 * max and max < 2^31 the conversions are exact.
wrap_noneg(i, max) ==
    IF i >= max THEN i - max ELSE IF i < 0 THEN 0 ELSE i

wrap(i, max) ==
    IF i < 0 THEN i + max
    ELSE IF i >= max THEN i - max
    ELSE i

grid_new(width, height, scale) ==
    [ width   |-> width \div scale,
      pitch   |-> DIV_ROUND_UP(width \div scale, 8),
      height  |-> height \div scale,
      scale   |-> scale,
      cells   |-> 0,
      parents |-> 1 ]

grid_offset(g, x, y) == y * g.pitch + (x \div 8)

grid_row_offset(g, y) == y * g.pitch

Cells(g) == (0 .. g.width - 1) \X (0 .. g.height - 1)

NeighbourOffsets == { o \in (-1 .. 1) \X (-1 .. 1) : o /= <<0, 0>> }

\* the counting loop of grid_tick_cell over the parents plane p
tick_count(g, p, x, y) ==
    Cardinality({ o \in NeighbourOffsets :
        LET l == wrap(y + o[2], g.height)
            k == wrap(x + o[1], g.width)
        IN  Bit(p, grid_row_offset(g, l) + (k \div 8), k % 8) })

\* the rule of grid_tick_cell: TRUE when the bit is set in grid->cells
tick_rule_b36(alive, count) ==
    IF alive THEN count = 2 \/ count = 3 ELSE count = 3 \/ count = 6

tick_rule(alive, count) ==
    IF alive THEN count = 2 \/ count = 3 ELSE count = 3

\* grid_tick: memset of pitch * height bytes, then grid_tick_cell per cell
grid_tick(g, p, c) ==
    LET cleared == { a \in c : a >= g.pitch * g.height * 8 }
        born == { grid_offset(g, xy[1], xy[2]) * 8 + (xy[1] % 8) : xy \in
                  { xy \in Cells(g) :
                      tick_rule(Bit(p, grid_offset(g, xy[1], xy[2]), xy[1] % 8),
                                tick_count(g, p, xy[1], xy[2])) } }
    IN  cleared \cup born

grid_swap_none(g) == g

grid_swap_half(g) == [g EXCEPT !.parents = g.cells]

grid_swap(g) == [g EXCEPT !.parents = g.cells, !.cells = g.parents]

grid_add_cell(g, p, x, y) == SetBit(p, grid_offset(g, x, y), x % 8)

RECURSIVE add_cells(_, _, _)
add_cells(g, p, cs) ==
    IF cs = <<>> THEN p
    ELSE add_cells(g, grid_add_cell(g, p, Head(cs)[1], Head(cs)[2]), Tail(cs))

grid_add_glider_row(g, p, x, y) ==
    add_cells(g, p, << <<x + 1, y + 0>>, <<x + 2, y + 1>>, <<x + 0, y + 2>>,
                       <<x + 1, y + 2>>, <<x + 2, y + 1>> >>)

grid_add_glider(g, p, x, y) ==
    add_cells(g, p, << <<x + 1, y + 0>>, <<x + 2, y + 1>>, <<x + 0, y + 2>>,
                       <<x + 1, y + 2>>, <<x + 2, y + 2>> >>)

\* grid_randomize: rand_r decides per cell; any subset S can come out
grid_randomize(g, p, S) ==
    p \cup { grid_offset(g, xy[1], xy[2]) * 8 + (xy[1] % 8) : xy \in S }

\* The callers pass unsigned x and y: `y - 2' below 0 is a value near 2^32
\* and grid_offset's product wraps modulo 2^32.  Coordinates and offsets are
\* kept here as their two's-complement representatives, so a negative byte
\* offset v stands for the offset 2^32 + v, far beyond any plane.
grid_add_pentomino(g, p, x, y) ==
    add_cells(g, p, << <<x + 1, y + 0>>, <<x + 2, y + 0>>, <<x + 0, y + 1>>,
                       <<x + 1, y + 1>>, <<x + 1, y + 2>> >>)

grid_add_diehard(g, p, x, y) ==
    add_cells(g, p, << <<x + 6, y + 0>>, <<x + 0, y + 1>>, <<x + 1, y + 1>>,
                       <<x + 1, y + 2>>, <<x + 5, y + 2>>, <<x + 6, y + 2>>,
                       <<x + 7, y + 2>> >>)

grid_add_gun(g, p, x, y) ==
    add_cells(g, p,
      << <<x +  0, y + 0>>, <<x +  1, y + 0>>, <<x +  0, y + 1>>,
         <<x +  1, y + 1>>, <<x + 10, y + 0>>, <<x + 10, y + 1>>,
         <<x + 10, y + 2>>, <<x + 11, y - 1>>, <<x + 11, y + 3>>,
         <<x + 12, y - 2>>, <<x + 12, y + 4>>, <<x + 13, y - 2>>,
         <<x + 13, y + 4>>, <<x + 14, y + 1>>, <<x + 15, y - 1>>,
         <<x + 15, y + 3>>, <<x + 16, y + 0>>, <<x + 16, y + 1>>,
         <<x + 16, y + 2>>, <<x + 17, y + 1>>, <<x + 20, y + 0>>,
         <<x + 20, y - 1>>, <<x + 20, y - 2>>, <<x + 21, y + 0>>,
         <<x + 21, y - 1>>, <<x + 21, y - 2>>, <<x + 22, y - 3>>,
         <<x + 22, y + 1>>, <<x + 24, y - 4>>, <<x + 24, y - 3>>,
         <<x + 24, y + 1>>, <<x + 24, y + 2>>, <<x + 34, y - 2>>,
         <<x + 34, y - 1>>, <<x + 35, y - 2>>, <<x + 35, y - 1>> >>)

grid_add_acorn(g, p, x, y) ==
    add_cells(g, p, << <<x + 0, y + 0>>, <<x + 1, y + 0>>, <<x + 1, y - 2>>,
                       <<x + 3, y - 1>>, <<x + 4, y + 0>>, <<x + 5, y + 0>>,
                       <<x + 6, y + 0>> >>)

\* grid_new's `size': the bytes each plane is calloc'ed with; height is the
\* height in pixels
plane_size(g, height) == (g.pitch * height) \div g.scale

\* ------------------------------------------------------------ RLE files
\* A file is the sequence of the lines getline returns, a line the sequence
\* of its characters, the newline included when the file has one.
IsDigit(c) == c \in {"0", "1", "2", "3", "4", "5", "6", "7", "8", "9"}

DigitVal(c) ==
    CASE c = "0" -> 0 [] c = "1" -> 1 [] c = "2" -> 2 [] c = "3" -> 3
      [] c = "4" -> 4 [] c = "5" -> 5 [] c = "6" -> 6 [] c = "7" -> 7
      [] c = "8" -> 8 [] c = "9" -> 9

IsSpace(c) == c \in {" ", "\t", "\n", "\r", "\f"}

\* the character at 1-based position i of a C string; past its last
\* character stands the terminating NUL
CharAt(str, i) == IF i <= Len(str) THEN str[i] ELSE "NUL"

RECURSIVE skip_space(_, _)
skip_space(str, i) ==
    IF IsSpace(CharAt(str, i)) THEN skip_space(str, i + 1) ELSE i

RECURSIVE strtoul_digits(_, _, _)
strtoul_digits(str, i, acc) ==
    IF IsDigit(CharAt(str, i))
    THEN strtoul_digits(str, i + 1, acc * 10 + DigitVal(str[i]))
    ELSE [val |-> acc, end |-> i]

\* strtoul(ptr, &end, 10) for unsigned decimal input: white space is
\* skipped, then digits are converted; with no digit end is ptr itself
strtoul(str, i) ==
    LET j == skip_space(str, i)
    IN  IF IsDigit(CharAt(str, j)) THEN strtoul_digits(str, j, 0)
        ELSE [val |-> 0, end |-> i]

\* the switch of grid_load_rle on the character after the count: the cells
\* to add and the cursors after it
rle_token_noreset(c, count, s, t, x, y) ==
    CASE c = "o" -> [cells |-> [i \in 1 .. count |-> <<x + s + (i - 1), y + t>>],
                     s |-> s + count, t |-> t]
      [] c = "b" -> [cells |-> <<>>, s |-> s + count, t |-> t]
      [] c = "$" -> [cells |-> <<>>, s |-> s, t |-> t + count]
      [] OTHER   -> [cells |-> <<>>, s |-> s, t |-> t]

rle_token(c, count, s, t, x, y) ==
    CASE c = "o" -> [cells |-> [i \in 1 .. count |-> <<x + s + (i - 1), y + t>>],
                     s |-> s + count, t |-> t]
      [] c = "b" -> [cells |-> <<>>, s |-> s + count, t |-> t]
      [] c = "$" -> [cells |-> <<>>, s |-> 0, t |-> t + count]
      [] OTHER   -> [cells |-> <<>>, s |-> s, t |-> t]

\* the inner loop `while (*ptr)' over one line from position i; a count
\* that ends the line makes ptr++ step over the terminating NUL (overrun)
RECURSIVE rle_line(_, _, _, _, _, _, _, _)
rle_line(g, p, str, i, s, t, x, y) ==
    IF CharAt(str, i) = "NUL" THEN [p |-> p, s |-> s, t |-> t, overrun |-> FALSE]
    ELSE LET n == strtoul(str, i)
             count == IF n.end = i THEN 1 ELSE n.val
             c == CharAt(str, n.end)
             r == rle_token(c, count, s, t, x, y)
         IN  IF c = "NUL"
             THEN [p |-> p, s |-> s, t |-> t, overrun |-> TRUE]
             ELSE rle_line(g, add_cells(g, p, r.cells), str, n.end + 1,
                           r.s, r.t, x, y)

\* the getline loop from line k on: comment and header lines are skipped,
\* the last character of any other line is overwritten with NUL
RECURSIVE rle_lines(_, _, _, _, _, _, _, _)
rle_lines(g, p, file, k, s, t, x, y) ==
    IF k > Len(file) THEN [p |-> p, overrun |-> FALSE, ret |-> 0]
    ELSE LET line == file[k]
         IN  IF line[1] = "#" \/ line[1] = "x"
             THEN rle_lines(g, p, file, k + 1, s, t, x, y)
             ELSE LET r == rle_line(g, p, SubSeq(line, 1, Len(line) - 1), 1,
                                    s, t, x, y)
                  IN  IF r.overrun
                      THEN [p |-> r.p, overrun |-> TRUE, ret |-> 0]
                      ELSE rle_lines(g, r.p, file, k + 1, r.s, r.t, x, y)

grid_load_rle(g, p, file, x, y) == rle_lines(g, p, file, 1, 0, 0, x, y)

\* "x = 3, y = 3, rule = B3/S23\n"
RleHeader ==
    <<"x", " ", "=", " ", "3", ",", " ", "y", " ", "=", " ", "3", ",", " ",
      "r", "u", "l", "e", " ", "=", " ", "B", "3", "/", "S", "2", "3", "\n">>

\* "3o$b2o$2bo!" with no newline at the end of the file
RleStream == <<RleHeader, <<"3", "o", "$", "b", "2", "o", "$", "2", "b", "o", "!">> >>

\* the same stream ended by a newline, after a comment line
RleStreamNl ==
    << <<"#", "C", "\n">>, RleHeader,
       <<"3", "o", "$", "b", "2", "o", "$", "2", "b", "o", "!", "\n">> >>

\* "bo$2bo$3o!", one row of the pattern per line
RleGlider ==
    << RleHeader, <<"b", "o", "$", "\n">>, <<"2", "b", "o", "$", "\n">>,
       <<"3", "o", "!", "\n">> >>

\* "2$04b2o!": a count of more than one digit and rows skipped by `$'
RleSkip == << RleHeader, <<"2", "$", "0", "4", "b", "2", "o", "!", "\n">> >>

RleFiles == {RleStream, RleStreamNl, RleGlider, RleSkip}

\* ------------------------------------------------- reading a plane back
CellLive(g, p, x, y) == Bit(p, y * g.pitch + (x \div 8), x % 8)

LiveSet(g, p) == { xy \in Cells(g) : CellLive(g, p, xy[1], xy[2]) }

\* number of offsets (dx,dy) whose cell, taken modulo the grid size, is live
LiveNeighbours(g, p, x, y) ==
    Cardinality({ d \in NeighbourOffsets :
        CellLive(g, p, (x + d[1]) % g.width, (y + d[2]) % g.height) })


\* ------------------------------------------------------------ drm-utils
\* addresses mmap() can return
Addrs == 1 .. NAddr

\* a return value of -errno
EFAIL == -1

\* what the kernel answers to dumb_bo_map: the result of the MAP_DUMB
\* ioctl, and the address (or MAP_FAILED) mmap() would return
MapAnswers(d) ==
    [ioctl : {0, -1}, map : (Addrs \ d.vma) \cup {MAP_FAILED}]

\* row alignments in bytes the kernel may give a dumb buffer
PitchAligns == {4, 32}

ALIGN(x, a) == ((x + a - 1) \div a) * a

\* dumb_bo_create: calloc'ed; the kernel answers the pitch (rows aligned to
\* `align' bytes) and the size
dumb_bo_create(width, height, bpp, align) ==
    [ ptr       |-> NULL,
      map_count |-> 0,
      pitch     |-> ALIGN(width * (bpp \div 8), align),
      size      |-> ALIGN(width * (bpp \div 8), align) * height,
      live      |-> TRUE ]

dumb_bo_map_always(b, d, k) ==
    IF k.ioctl < 0 \/ k.map = MAP_FAILED
    THEN [bo |-> b, dev |-> d, ret |-> EFAIL]
    ELSE [bo |-> [b EXCEPT !.ptr = k.map, !.map_count = @ + 1],
          dev |-> [vma |-> d.vma \cup {k.map}, nmmap |-> d.nmmap + 1],
          ret |-> 0]

dumb_bo_map(b, d, k) ==
    IF b.ptr /= NULL
    THEN [bo |-> [b EXCEPT !.map_count = @ + 1], dev |-> d, ret |-> 0]
    ELSE IF k.ioctl < 0
    THEN [bo |-> b, dev |-> d, ret |-> EFAIL]
    ELSE IF k.map = MAP_FAILED
    THEN [bo |-> b, dev |-> d, ret |-> EFAIL]
    ELSE [bo |-> [b EXCEPT !.ptr = k.map],
          dev |-> [vma |-> d.vma \cup {k.map}, nmmap |-> d.nmmap + 1],
          ret |-> 0]

dumb_bo_unmap(b, d) ==
    [bo |-> [b EXCEPT !.map_count = @ - 1], dev |-> d, ret |-> 0]

\* dumb_bo_destroy: k is the result of the DESTROY_DUMB ioctl
dumb_bo_destroy(b, d, k) ==
    LET d1 == IF b.ptr /= NULL THEN [d EXCEPT !.vma = @ \ {b.ptr}] ELSE d
        b1 == [b EXCEPT !.ptr = NULL]
    IN  IF k < 0
        THEN [bo |-> b1, dev |-> d1, ret |-> EFAIL]
        ELSE [bo |-> [b1 EXCEPT !.live = FALSE], dev |-> d1, ret |-> 0]

\* surface->id, handed out by drmModeAddFB
surface_id(i) == i + 1

surface_lock(b, d, k) == dumb_bo_map(b, d, k)

surface_unlock(b, d) == dumb_bo_unmap(b, d)

\* screen_create on a mode of width x height: calloc'ed screen, the
\* controller still scans out what it did before
screen_create(width, height) ==
    [width |-> width, height |-> height, current |-> 0]

XOR1(c) == 1 - c

\* screen_swap: k is the result of drmModeSetCrtc on fb[current]
screen_swap_failtoggle(sc, ct, k) ==
    LET fb == surface_id(sc.current)
    IN  IF k < 0
        THEN [screen |-> [sc EXCEPT !.current = XOR1(@)], crtc |-> ct,
              fb |-> fb, ret |-> EFAIL]
        ELSE [screen |-> [sc EXCEPT !.current = XOR1(@)],
              crtc |-> [fb |-> fb, flip |-> NoFb], fb |-> fb, ret |-> 0]

screen_swap_other(sc, ct, k) ==
    LET fb == surface_id(XOR1(sc.current))
    IN  IF k < 0
        THEN [screen |-> sc, crtc |-> ct, fb |-> fb, ret |-> EFAIL]
        ELSE [screen |-> [sc EXCEPT !.current = XOR1(@)],
              crtc |-> [fb |-> fb, flip |-> NoFb], fb |-> fb, ret |-> 0]

screen_swap_notoggle(sc, ct, k) ==
    LET fb == surface_id(sc.current)
    IN  IF k < 0
        THEN [screen |-> sc, crtc |-> ct, fb |-> fb, ret |-> EFAIL]
        ELSE [screen |-> sc,
              crtc |-> [fb |-> fb, flip |-> NoFb], fb |-> fb, ret |-> 0]

screen_swap(sc, ct, k) ==
    LET fb == surface_id(sc.current)
    IN  IF k < 0
        THEN [screen |-> sc, crtc |-> ct, fb |-> fb, ret |-> EFAIL]
        ELSE [screen |-> [sc EXCEPT !.current = XOR1(@)],
              crtc |-> [fb |-> fb, flip |-> NoFb], fb |-> fb, ret |-> 0]

\* screen_flip: k is the result of drmModePageFlip on fb[current]
screen_flip_wait(sc, ct, k) ==
    LET fb == surface_id(sc.current)
    IN  IF k < 0
        THEN [screen |-> sc, crtc |-> ct, fb |-> fb, ret |-> EFAIL]
        ELSE [screen |-> [sc EXCEPT !.current = XOR1(@)],
              crtc |-> [fb |-> fb, flip |-> NoFb], fb |-> fb, ret |-> 0]

screen_flip_early(sc, ct, k) ==
    LET fb == surface_id(sc.current)
    IN  IF k < 0
        THEN [screen |-> [sc EXCEPT !.current = XOR1(@)], crtc |-> ct,
              fb |-> fb, ret |-> EFAIL]
        ELSE [screen |-> [sc EXCEPT !.current = XOR1(@)],
              crtc |-> [ct EXCEPT !.flip = fb], fb |-> fb, ret |-> 0]

screen_flip(sc, ct, k) ==
    LET fb == surface_id(sc.current)
    IN  IF k < 0
        THEN [screen |-> sc, crtc |-> ct, fb |-> fb, ret |-> EFAIL]
        ELSE [screen |-> [sc EXCEPT !.current = XOR1(@)],
              crtc |-> [ct EXCEPT !.flip = fb], fb |-> fb, ret |-> 0]

\* surface_destroy: the result of dumb_bo_destroy (bo_ret) is dropped, the
\* surface is freed, 0 is returned
surface_destroy(b, d, k) ==
    LET r == dumb_bo_destroy(b, d, k)
    IN  [bo |-> r.bo, dev |-> r.dev, bo_ret |-> r.ret, ret |-> 0]

\* screen_free.  orig is screen->original_crtc, which screen_create stores
\* without testing it: when drmModeGetCrtc returned NULL, crtc->crtc_id
\* dereferences a null pointer (segv).  k.restore is the result of the
\* restoring drmModeSetCrtc, k.d0 and k.d1 those of the two DESTROY_DUMB
\* ioctls; none is looked at.  log lists the calls made, each with its
\* result and the framebuffer scanned out when it was made.
screen_free(ct, orig, b, d, k) ==
    IF ~orig.valid
    THEN [segv |-> TRUE, crtc |-> ct, orig |-> orig, bo |-> b, dev |-> d,
          master |-> TRUE, log |-> <<>>, ret |-> 0]
    ELSE LET ct1 == IF k.restore = 0
                    THEN [fb |-> orig.buffer_id, flip |-> NoFb] ELSE ct
             r0 == surface_destroy(b[0], d, k.d0)
             r1 == surface_destroy(b[1], r0.dev, k.d1)
         IN  [segv |-> FALSE,
              crtc |-> ct1,
              orig |-> [orig EXCEPT !.freed = TRUE],
              bo |-> [i \in 0 .. 1 |-> IF i = 0 THEN r0.bo ELSE r1.bo],
              dev |-> r1.dev,
              master |-> FALSE,
              log |-> << [op |-> "restore", fb |-> orig.buffer_id,
                          ret |-> k.restore, scanout |-> ct.fb],
                         [op |-> "destroy", fb |-> surface_id(0),
                          ret |-> r0.bo_ret, scanout |-> ct1.fb],
                         [op |-> "destroy", fb |-> surface_id(1),
                          ret |-> r1.bo_ret, scanout |-> ct1.fb],
                         [op |-> "dropmaster", fb |-> NoFb,
                          ret |-> 0, scanout |-> ct1.fb] >>,
              ret |-> 0]

\* the controller completes a pending flip at the vertical blank
vblank(ct) == [fb |-> ct.flip, flip |-> NoFb]

\* the byte offsets of the 32-bit pixels of a buffer of `size' bytes
PixelOffsets(size) == { 4 * n : n \in 0 .. (size \div 4) - 1 }

\* the stores of grid_draw's loops: <<byte offset from the mapped pointer,
\* colour>>, for the plane contents c and the buffer's pitch
draw_stores_tight(g, c, pitch) ==
    { << (xyij[2] * g.scale + xyij[4]) * (g.width * g.scale * 4)
            + 4 * (xyij[1] * g.scale + xyij[3]),
         IF Bit(c, grid_row_offset(g, xyij[2]) + (xyij[1] \div 8),
                xyij[1] % 8)
         THEN WHITE ELSE BLACK >> :
      xyij \in (0 .. g.width - 1) \X (0 .. g.height - 1)
               \X (0 .. g.scale - 1) \X (0 .. g.scale - 1) }

draw_stores(g, c, pitch) ==
    { << (xyij[2] * g.scale + xyij[4]) * pitch
            + 4 * (xyij[1] * g.scale + xyij[3]),
         IF Bit(c, grid_row_offset(g, xyij[2]) + (xyij[1] \div 8),
                xyij[1] % 8)
         THEN WHITE ELSE BLACK >> :
      xyij \in (0 .. g.width - 1) \X (0 .. g.height - 1)
               \X (0 .. g.scale - 1) \X (0 .. g.scale - 1) }

\* grid_draw on the buffer b of fb[current] with pixels mem; pl are the
\* two planes, k the kernel's answer to the map in surface_lock
grid_draw_parents(g, pl, b, d, mem, k) ==
    LET lk == surface_lock(b, d, k)
        st == draw_stores(g, pl[g.parents], b.pitch)
        ul == surface_unlock(lk.bo, lk.dev)
    IN  IF lk.ret < 0
        THEN [bo |-> lk.bo, dev |-> lk.dev, mem |-> mem, written |-> {},
              ret |-> lk.ret]
        ELSE [bo |-> ul.bo, dev |-> ul.dev,
              mem |-> [o \in DOMAIN mem |->
                         IF \E w \in st : w[1] = o
                         THEN (CHOOSE w \in st : w[1] = o)[2]
                         ELSE mem[o]],
              written |-> { w[1] : w \in st },
              ret |-> 0]

grid_draw(g, pl, b, d, mem, k) ==
    LET lk == surface_lock(b, d, k)
        st == draw_stores(g, pl[g.cells], b.pitch)
        ul == surface_unlock(lk.bo, lk.dev)
    IN  IF lk.ret < 0
        THEN [bo |-> lk.bo, dev |-> lk.dev, mem |-> mem, written |-> {},
              ret |-> lk.ret]
        ELSE [bo |-> ul.bo, dev |-> ul.dev,
              mem |-> [o \in DOMAIN mem |->
                         IF \E w \in st : w[1] = o
                         THEN (CHOOSE w \in st : w[1] = o)[2]
                         ELSE mem[o]],
              written |-> { w[1] : w \in st },
              ret |-> 0]

\* values of the drm variables in a run that opens no device
NoScreen ==
    /\ screen = screen_create(0, 0)
    /\ crtc = [fb |-> OrigFb, flip |-> NoFb]
    /\ bo = <<>>
    /\ dev = [vma |-> {}, nmmap |-> 0]
    /\ pix = <<>>
    /\ written = {}
    /\ last = [op |-> "none", fb |-> NoFb, cur |-> 0, ret |-> 0]
    /\ calls = [sok |-> 0, sfail |-> 0, fok |-> 0, ffail |-> 0]
    /\ hist = <<>>

\* The process before main has parsed its options: no interrupt yet, the
\* default scale, the snapshot of the controller taken, master held.
NoArg == [file |-> <<>>, x |-> 0, y |-> 0]

NoProc ==
    /\ done = FALSE
    /\ scaleopt = 1
    /\ original_crtc = [valid |-> TRUE, buffer_id |-> OrigFb, freed |-> FALSE]
    /\ sys = [status |-> "running", master |-> TRUE, log |-> <<>>,
              grid_freed |-> FALSE, free_ret |-> 0]
    /\ arg = NoArg

NoGrid ==
    /\ grid = grid_new(0, 0, 1)
    /\ plane = [i \in 0 .. 1 |-> {}]
    /\ ncount = [xy \in {} |-> 0]
    /\ pattern = "RANDOM"
    /\ seed0 = {}
    /\ gen = 0
    /\ framerate = 60

\* -------------------------------------------------- the engine harness
\* grid_new on a fresh grid, one seeding call, then generations of
\* grid_tick followed by grid_swap.
LifeInit ==
    /\ NoProc
    /\ \/ /\ pattern = "RANDOM"
          /\ \E w \in 1 .. MaxCells, h \in 1 .. MaxCells :
                /\ w * h <= MaxCells
                /\ grid = grid_new(w, h, 1)
       \/ /\ pattern = "GLIDER"
          /\ grid = grid_new(GliderGrid, GliderGrid, 1)
    /\ plane = [i \in 0 .. 1 |-> {}]
    /\ ncount = [xy \in {} |-> 0]
    /\ seed0 = {}
    /\ pc = "seed"
    /\ gen = 0
    /\ framerate = 60
    /\ NoScreen

LifeRandomize ==
    /\ pc = "seed"
    /\ pattern = "RANDOM"
    /\ \E S \in SUBSET Cells(grid) :
         /\ plane' = [plane EXCEPT
                        ![grid.parents] = grid_randomize(grid, @, S)]
         /\ seed0' = LiveSet(grid, plane'[grid.parents])
    /\ pc' = "tick"
    /\ UNCHANGED <<grid, ncount, pattern, gen, framerate, drmVars, procVars>>

\* the glider seeded at an anchor where it lies fully inside the grid
LifeAddGlider ==
    /\ pc = "seed"
    /\ pattern = "GLIDER"
    /\ \E x \in 0 .. grid.width - 3, y \in 0 .. grid.height - 3 :
         /\ plane' = [plane EXCEPT
                        ![grid.parents] = grid_add_glider(grid, @, x, y)]
         /\ seed0' = LiveSet(grid, plane'[grid.parents])
    /\ pc' = "tick"
    /\ UNCHANGED <<grid, ncount, pattern, gen, framerate, drmVars, procVars>>

LifeTick ==
    /\ pc = "tick"
    /\ gen < MaxGen
    /\ plane' = [plane EXCEPT ![grid.cells] =
                    grid_tick(grid, plane[grid.parents], @)]
    /\ ncount' = [xy \in Cells(grid) |->
                    tick_count(grid, plane[grid.parents], xy[1], xy[2])]
    /\ pc' = "swap"
    /\ UNCHANGED <<grid, pattern, seed0, gen, framerate, drmVars, procVars>>

LifeSwap ==
    /\ pc = "swap"
    /\ grid' = grid_swap(grid)
    /\ gen' = gen + 1
    /\ pc' = "tick"
    /\ UNCHANGED <<plane, ncount, pattern, seed0, framerate, drmVars, procVars>>

LifeNext == LifeRandomize \/ LifeAddGlider \/ LifeTick \/ LifeSwap

SpecLife == LifeInit /\ [][LifeNext]_vars

\* --------------------------------------------------- the buffer harness
\* dumb_bo_create of one buffer, then dumb_bo_map, dumb_bo_unmap and
\* dumb_bo_destroy in any order until the buffer is freed.
BoInit ==
    /\ NoProc
    /\ NoGrid
    /\ pc = "bo"
    /\ screen = screen_create(0, 0)
    /\ crtc = [fb |-> OrigFb, flip |-> NoFb]
    /\ bo = [i \in {0} |-> dumb_bo_create(1, 1, 32, 4)]
    /\ dev = [vma |-> {}, nmmap |-> 0]
    /\ pix = [i \in {0} |-> [o \in {0} |-> BLACK]]
    /\ written = {}
    /\ last = [op |-> "none", fb |-> NoFb, cur |-> 0, ret |-> 0]
    /\ calls = [sok |-> 0, sfail |-> 0, fok |-> 0, ffail |-> 0]
    /\ hist = <<>>

BoLog(op, r) ==
    Append(hist, [op |-> op, ret |-> r.ret, ptr |-> r.bo.ptr,
                  map_count |-> r.bo.map_count,
                  nmmap |-> r.dev.nmmap, vma |-> r.dev.vma])

BoMap ==
    /\ pc = "bo" /\ bo[0].live /\ Len(hist) < MaxOps
    /\ \E k \in MapAnswers(dev) :
         LET r == dumb_bo_map(bo[0], dev, k)
         IN  /\ bo' = [bo EXCEPT ![0] = r.bo]
             /\ dev' = r.dev
             /\ hist' = BoLog("map", r)
    /\ UNCHANGED <<gridVars, procVars, pc, screen, crtc, pix, written, last, calls>>

BoUnmap ==
    /\ pc = "bo" /\ bo[0].live /\ Len(hist) < MaxOps
    /\ LET r == dumb_bo_unmap(bo[0], dev)
       IN  /\ bo' = [bo EXCEPT ![0] = r.bo]
           /\ dev' = r.dev
           /\ hist' = BoLog("unmap", r)
    /\ UNCHANGED <<gridVars, procVars, pc, screen, crtc, pix, written, last, calls>>

BoDestroy ==
    /\ pc = "bo" /\ bo[0].live /\ Len(hist) < MaxOps
    /\ \E k \in {0, -1} :
         LET r == dumb_bo_destroy(bo[0], dev, k)
         IN  /\ bo' = [bo EXCEPT ![0] = r.bo]
             /\ dev' = r.dev
             /\ hist' = BoLog("destroy", r)
    /\ UNCHANGED <<gridVars, procVars, pc, screen, crtc, pix, written, last, calls>>

BoNext == BoMap \/ BoUnmap \/ BoDestroy

SpecBo == BoInit /\ [][BoNext]_vars

\* --------------------------------------------------- the screen harness
\* a screen after screen_create, then screen_swap and screen_flip in any
\* order, the controller completing a pending flip at a vertical blank.
ScrInit ==
    /\ NoProc
    /\ NoGrid
    /\ pc = "screen"
    /\ screen = screen_create(1, 1)
    /\ crtc = [fb |-> OrigFb, flip |-> NoFb]
    /\ bo = [i \in 0 .. 1 |-> dumb_bo_create(1, 1, 32, 4)]
    /\ dev = [vma |-> {}, nmmap |-> 0]
    /\ pix = [i \in 0 .. 1 |-> [o \in {0} |-> BLACK]]
    /\ written = {}
    /\ last = [op |-> "none", fb |-> NoFb, cur |-> 0, ret |-> 0]
    /\ calls = [sok |-> 0, sfail |-> 0, fok |-> 0, ffail |-> 0]
    /\ hist = <<>>

NCalls == calls.sok + calls.sfail + calls.fok + calls.ffail

ScrSwap ==
    /\ pc = "screen" /\ NCalls < MaxCalls
    /\ \E k \in {0, -1} :
         LET r == screen_swap(screen, crtc, k)
         IN  /\ screen' = r.screen
             /\ crtc' = r.crtc
             /\ last' = [op |-> "swap", fb |-> r.fb,
                         cur |-> screen.current, ret |-> r.ret]
             /\ calls' = IF r.ret = 0 THEN [calls EXCEPT !.sok = @ + 1]
                         ELSE [calls EXCEPT !.sfail = @ + 1]
    /\ UNCHANGED <<gridVars, procVars, pc, bo, dev, pix, written, hist>>

\* the kernel refuses a flip while one is pending
ScrFlip ==
    /\ pc = "screen" /\ NCalls < MaxCalls
    /\ \E k \in (IF crtc.flip /= NoFb THEN {-1} ELSE {0, -1}) :
         LET r == screen_flip(screen, crtc, k)
         IN  /\ screen' = r.screen
             /\ crtc' = r.crtc
             /\ last' = [op |-> "flip", fb |-> r.fb,
                         cur |-> screen.current, ret |-> r.ret]
             /\ calls' = IF r.ret = 0 THEN [calls EXCEPT !.fok = @ + 1]
                         ELSE [calls EXCEPT !.ffail = @ + 1]
    /\ UNCHANGED <<gridVars, procVars, pc, bo, dev, pix, written, hist>>

ScrVBlank ==
    /\ pc = "screen" /\ crtc.flip /= NoFb
    /\ crtc' = vblank(crtc)
    /\ UNCHANGED <<gridVars, procVars, pc, screen, bo, dev, pix, written, last,
                   calls, hist>>

ScrNext == ScrSwap \/ ScrFlip \/ ScrVBlank

SpecScreen == ScrInit /\ [][ScrNext]_vars

\* ------------------------------------------------------------------ main
\* main after screen_create and grid_new succeeded: seeding, then the loop
\* grid_tick (skipped when framerate is 0), grid_draw, screen_swap,
\* grid_swap.  The mode, the scale, the kernel's row alignment and
\* framerate are the run's inputs.
MainInit ==
    /\ NoProc
    /\ \E w \in 1 .. MaxPx, h \in 1 .. MaxPx, sc \in 1 .. MaxScale,
          align \in PitchAligns :
         /\ (w \div sc) * (h \div sc) \in 1 .. MainCells
         /\ screen = screen_create(w, h)
         /\ bo = [i \in 0 .. 1 |-> dumb_bo_create(w, h, 32, align)]
         /\ grid = grid_new(w, h, sc)
    /\ pix = [i \in 0 .. 1 |-> [o \in PixelOffsets(bo[i].size) |-> BLACK]]
    /\ crtc = [fb |-> OrigFb, flip |-> NoFb]
    /\ dev = [vma |-> {}, nmmap |-> 0]
    /\ plane = [i \in 0 .. 1 |-> {}]
    /\ ncount = [xy \in {} |-> 0]
    /\ pattern = "RANDOM"
    /\ seed0 = {}
    /\ gen = 0
    /\ framerate \in {0, 60}
    /\ pc = "main_seed"
    /\ written = {}
    /\ last = [op |-> "none", fb |-> NoFb, cur |-> 0, ret |-> 0]
    /\ calls = [sok |-> 0, sfail |-> 0, fok |-> 0, ffail |-> 0]
    /\ hist = <<>>

MainSeed ==
    /\ pc = "main_seed"
    /\ \E S \in SUBSET Cells(grid) :
         /\ plane' = [plane EXCEPT
                        ![grid.parents] = grid_randomize(grid, @, S)]
         /\ seed0' = LiveSet(grid, plane'[grid.parents])
    /\ pc' = "main_tick"
    /\ UNCHANGED <<grid, ncount, pattern, gen, framerate, drmVars, procVars>>

MainTick ==
    /\ pc = "main_tick"
    /\ ~done
    /\ gen < MaxIter
    /\ IF framerate > 0
       THEN /\ plane' = [plane EXCEPT ![grid.cells] =
                           grid_tick(grid, plane[grid.parents], @)]
            /\ ncount' = [xy \in Cells(grid) |->
                           tick_count(grid, plane[grid.parents],
                                      xy[1], xy[2])]
       ELSE UNCHANGED <<plane, ncount>>
    /\ pc' = "main_draw"
    /\ UNCHANGED <<grid, pattern, seed0, gen, framerate, drmVars, procVars>>

MainDraw ==
    /\ pc = "main_draw"
    /\ \E k \in MapAnswers(dev) :
         LET cur == screen.current
             r == grid_draw(grid, plane, bo[cur], dev, pix[cur], k)
         IN  /\ bo' = [bo EXCEPT ![cur] = r.bo]
             /\ dev' = r.dev
             /\ pix' = [pix EXCEPT ![cur] = r.mem]
             /\ written' = r.written
             /\ last' = [op |-> "draw", fb |-> surface_id(cur),
                         cur |-> cur, ret |-> r.ret]
    /\ pc' = "main_present"
    /\ UNCHANGED <<gridVars, procVars, screen, crtc, calls, hist>>

MainPresent ==
    /\ pc = "main_present"
    /\ \E k \in {0, -1} :
         LET r == screen_swap(screen, crtc, k)
         IN  /\ screen' = r.screen
             /\ crtc' = r.crtc
             /\ last' = [op |-> "swap", fb |-> r.fb,
                         cur |-> screen.current, ret |-> r.ret]
             /\ calls' = IF r.ret = 0 THEN [calls EXCEPT !.sok = @ + 1]
                         ELSE [calls EXCEPT !.sfail = @ + 1]
    /\ pc' = "main_gswap"
    /\ UNCHANGED <<gridVars, procVars, bo, dev, pix, written, hist>>

MainGridSwap ==
    /\ pc = "main_gswap"
    /\ grid' = grid_swap(grid)
    /\ gen' = gen + 1
    /\ pc' = "main_tick"
    /\ UNCHANGED <<plane, ncount, pattern, seed0, framerate, drmVars, procVars>>

MainNext == MainSeed \/ MainTick \/ MainDraw \/ MainPresent \/ MainGridSwap

SpecMain == MainInit /\ [][MainNext]_vars

InMain == pc \in {"main_seed", "main_tick", "main_draw", "main_present",
                  "main_gswap"}

\* ------------------------------------------------------ the whole main
\* main from its option loop to its return, on small modes: the -S option,
\* screen_create, grid_new, the seeding, the loop under SIGINT, and the
\* teardown.
opt_scale_any(scale) == TRUE

\* case 'S': `if (!scale) return 1'
opt_scale_ok(scale) == scale /= 0

InLoop == pc \in {"main_tick", "main_draw", "main_present", "main_gswap"}

InTeardown == pc \in {"main_free", "main_sfree", "main_close"}

RunInit ==
    /\ NoScreen
    /\ grid = grid_new(0, 0, 1)
    /\ plane = [i \in 0 .. 1 |-> {}]
    /\ ncount = [xy \in {} |-> 0]
    /\ pattern = "RANDOM"
    /\ seed0 = {}
    /\ gen = 0
    /\ framerate \in {0, 60}
    /\ scaleopt \in 0 .. MaxScale
    /\ done = FALSE
    /\ original_crtc = [valid |-> FALSE, buffer_id |-> NoFb, freed |-> FALSE]
    /\ sys = [status |-> "running", master |-> FALSE, log |-> <<>>,
              grid_freed |-> FALSE, free_ret |-> 0]
    /\ arg = NoArg
    /\ pc = "run_opts"

\* the option loop: -S 0 ends the program with status 1
RunOptions ==
    /\ pc = "run_opts"
    /\ IF opt_scale_ok(scaleopt)
       THEN pc' = "run_create" /\ UNCHANGED sys
       ELSE pc' = "exit" /\ sys' = [sys EXCEPT !.status = "exit1"]
    /\ UNCHANGED <<gridVars, drmVars, done, scaleopt, original_crtc, arg>>

\* screen_create: master is taken, drmModeGetCrtc returns a snapshot or
\* NULL (got), the mode of the connector gives width and height
RunScreenCreate ==
    /\ pc = "run_create"
    /\ \E w \in 1 .. RunPx, h \in 1 .. RunPx, align \in PitchAligns,
          got \in BOOLEAN :
         /\ scaleopt > 0 => (w \div scaleopt) * (h \div scaleopt) \in 1 .. RunCells
         /\ screen' = screen_create(w, h)
         /\ bo' = [i \in 0 .. 1 |-> dumb_bo_create(w, h, 32, align)]
         /\ pix' = [i \in 0 .. 1 |->
                      [o \in PixelOffsets(bo'[i].size) |-> BLACK]]
         /\ original_crtc' = [valid |-> got, buffer_id |-> crtc.fb,
                              freed |-> FALSE]
    /\ sys' = [sys EXCEPT !.master = TRUE]
    /\ pc' = "run_new"
    /\ UNCHANGED <<gridVars, crtc, dev, written, last, calls, hist, done,
                   scaleopt, arg>>

\* grid_new divides by scale before anything else: with scale = 0 the
\* division traps
RunGridNew ==
    /\ pc = "run_new"
    /\ IF scaleopt = 0
       THEN /\ pc' = "exit"
            /\ sys' = [sys EXCEPT !.status = "sigfpe"]
            /\ UNCHANGED grid
       ELSE /\ grid' = grid_new(screen.width, screen.height, scaleopt)
            /\ pc' = "main_seed"
            /\ UNCHANGED sys
    /\ UNCHANGED <<plane, ncount, pattern, seed0, gen, framerate, drmVars,
                   done, scaleopt, original_crtc, arg>>

\* signal_handler, once sigaction has installed it
Sigint ==
    /\ InLoop \/ InTeardown
    /\ ~done
    /\ done' = TRUE
    /\ UNCHANGED <<gridVars, pc, drmVars, scaleopt, original_crtc, sys, arg>>

\* `while (!done)' read as true
MainLoopExit ==
    /\ pc = "main_tick"
    /\ done
    /\ pc' = "main_free"
    /\ UNCHANGED <<gridVars, drmVars, procVars>>

MainGridFree ==
    /\ pc = "main_free"
    /\ sys' = [sys EXCEPT !.grid_freed = TRUE]
    /\ pc' = "main_sfree"
    /\ UNCHANGED <<gridVars, drmVars, done, scaleopt, original_crtc, arg>>

MainScreenFree ==
    /\ pc = "main_sfree"
    /\ \E k \in [restore : {0, -1}, d0 : {0, -1}, d1 : {0, -1}] :
         LET r == screen_free(crtc, original_crtc, bo, dev, k)
         IN  /\ crtc' = r.crtc
             /\ original_crtc' = r.orig
             /\ bo' = r.bo
             /\ dev' = r.dev
             /\ IF r.segv
                THEN /\ pc' = "exit"
                     /\ sys' = [sys EXCEPT !.status = "sigsegv"]
                ELSE /\ pc' = "main_close"
                     /\ sys' = [sys EXCEPT !.master = r.master,
                                           !.log = r.log,
                                           !.free_ret = r.ret]
    /\ UNCHANGED <<gridVars, screen, pix, written, last, calls, hist, done,
                   scaleopt, arg>>

\* drmClose(fd); return 0
MainClose ==
    /\ pc = "main_close"
    /\ pc' = "exit"
    /\ sys' = [sys EXCEPT !.status = "exit0"]
    /\ UNCHANGED <<gridVars, drmVars, done, scaleopt, original_crtc, arg>>

RunNext ==
    \/ RunOptions \/ RunScreenCreate \/ RunGridNew
    \/ MainSeed \/ MainTick \/ MainDraw \/ MainPresent \/ MainGridSwap
    \/ Sigint \/ MainLoopExit \/ MainGridFree \/ MainScreenFree \/ MainClose

SpecRun == RunInit /\ [][RunNext]_vars

\* ------------------------------------------------ the seeding patterns
\* The seeding calls of main on a freshly created grid: grid_new for a mode
\* of w x h pixels at scale 1, then one pattern at an anchor cell of the
\* grid (main passes the centre cell).
Patterns == {"DIE_HARD", "GLIDER", "PENTOMINO", "GUN", "ACORN", "FILE"}

SeedInit ==
    /\ NoProc
    /\ \E w \in 1 .. SeedW, h \in 1 .. SeedH :
         /\ screen = screen_create(w, h)
         /\ grid = grid_new(w, h, 1)
    /\ pattern \in Patterns
    /\ plane = [i \in 0 .. 1 |-> {}]
    /\ ncount = [xy \in {} |-> 0]
    /\ seed0 = {}
    /\ gen = 0
    /\ framerate = 60
    /\ pc = "seed"
    /\ crtc = [fb |-> OrigFb, flip |-> NoFb]
    /\ bo = <<>>
    /\ dev = [vma |-> {}, nmmap |-> 0]
    /\ pix = <<>>
    /\ written = {}
    /\ last = [op |-> "none", fb |-> NoFb, cur |-> 0, ret |-> 0]
    /\ calls = [sok |-> 0, sfail |-> 0, fok |-> 0, ffail |-> 0]
    /\ hist = <<>>

SeedPattern ==
    /\ pc = "seed"
    /\ pattern /= "FILE"
    /\ \E xy \in Cells(grid) :
         LET x == xy[1]
             y == xy[2]
             p == plane[grid.parents]
         IN  /\ plane' = [plane EXCEPT ![grid.parents] =
                    CASE pattern = "DIE_HARD"  -> grid_add_diehard(grid, p, x, y)
                      [] pattern = "GLIDER"    -> grid_add_glider(grid, p, x, y)
                      [] pattern = "PENTOMINO" -> grid_add_pentomino(grid, p, x, y)
                      [] pattern = "GUN"       -> grid_add_gun(grid, p, x, y)
                      [] pattern = "ACORN"     -> grid_add_acorn(grid, p, x, y)]
             /\ arg' = [file |-> <<>>, x |-> x, y |-> y]
    /\ seed0' = LiveSet(grid, plane'[grid.parents])
    /\ pc' = "seeded"
    /\ UNCHANGED <<grid, ncount, pattern, gen, framerate, drmVars, done,
                   scaleopt, original_crtc, sys>>

SeedFile ==
    /\ pc = "seed"
    /\ pattern = "FILE"
    /\ \E xy \in Cells(grid), file \in RleFiles :
         /\ plane' = [plane EXCEPT ![grid.parents] =
                        grid_load_rle(grid, @, file, xy[1], xy[2]).p]
         /\ arg' = [file |-> file, x |-> xy[1], y |-> xy[2]]
    /\ seed0' = LiveSet(grid, plane'[grid.parents])
    /\ pc' = "seeded"
    /\ UNCHANGED <<grid, ncount, pattern, gen, framerate, drmVars, done,
                   scaleopt, original_crtc, sys>>

SeedNext == SeedPattern \/ SeedFile

SpecSeed == SeedInit /\ [][SeedNext]_vars

\* ---------------------------------------------------------------- claims

\* C1: after grid_tick, a cell's bit in the next plane is set exactly when
\* the cell is live in the current plane with 2 or 3 live neighbours, or
\* dead in the current plane with exactly 3 live neighbours.
C1_TickRule ==
    pc = "swap" =>
        \A xy \in Cells(grid) :
            LET alive == CellLive(grid, plane[grid.parents], xy[1], xy[2])
                n == LiveNeighbours(grid, plane[grid.parents], xy[1], xy[2])
            IN  CellLive(grid, plane[grid.cells], xy[1], xy[2])
                    <=> \/ alive /\ n \in {2, 3}
                        \/ ~alive /\ n = 3

\* a tick has run on a grid where every row of the transition table occurs:
\* a live cell survives, a live cell dies, a dead cell is born and a dead
\* cell stays dead
C1_Witness ==
    /\ pc = "swap"
    /\ \E xy \in Cells(grid) :
         /\ CellLive(grid, plane[grid.parents], xy[1], xy[2])
         /\ ncount[xy] \in {2, 3}
         /\ CellLive(grid, plane[grid.cells], xy[1], xy[2])
    /\ \E xy \in Cells(grid) :
         /\ CellLive(grid, plane[grid.parents], xy[1], xy[2])
         /\ ncount[xy] \notin {2, 3}
         /\ ~CellLive(grid, plane[grid.cells], xy[1], xy[2])
    /\ \E xy \in Cells(grid) :
         /\ ~CellLive(grid, plane[grid.parents], xy[1], xy[2])
         /\ ncount[xy] = 3
         /\ CellLive(grid, plane[grid.cells], xy[1], xy[2])
    /\ \E xy \in Cells(grid) :
         /\ ~CellLive(grid, plane[grid.parents], xy[1], xy[2])
         /\ ncount[xy] \notin {0, 3}
         /\ ~CellLive(grid, plane[grid.cells], xy[1], xy[2])

\* C2: the neighbours grid_tick counts for (x,y) are the cells
\* ((x+dx) mod width, (y+dy) mod height) for the eight offsets, each offset
\* counted once.
C2_ToroidalCount ==
    pc = "swap" =>
        \A xy \in Cells(grid) :
            ncount[xy] = LiveNeighbours(grid, plane[grid.parents],
                                        xy[1], xy[2])

\* only (0,0) and (width-1,height-1) are live on a grid at least 3 wide and
\* high, and each was counted as the single neighbour of the other
C2_Witness ==
    /\ pc = "swap"
    /\ grid.width >= 3 /\ grid.height >= 3
    /\ LiveSet(grid, plane[grid.parents])
          = {<<0, 0>>, <<grid.width - 1, grid.height - 1>>}
    /\ ncount[<<0, 0>>] = 1
    /\ ncount[<<grid.width - 1, grid.height - 1>>] = 1

\* C3: a glider seeded fully inside the 16x16 grid is, after 4 generations
\* of tick then swap, the seeded set translated by (+1,+1) modulo the size.
C3_GliderTranslation ==
    (pattern = "GLIDER" /\ gen = 4 /\ pc = "tick") =>
        LiveSet(grid, plane[grid.parents])
            = { <<(xy[1] + 1) % grid.width, (xy[2] + 1) % grid.height>> :
                xy \in seed0 }

\* the glider seeded at anchor (0,0) has run its 4 generations
C3_Witness ==
    /\ pattern = "GLIDER" /\ gen = 4 /\ pc = "tick"
    /\ seed0 = {<<1, 0>>, <<2, 1>>, <<0, 2>>, <<1, 2>>, <<2, 2>>}
    /\ LiveSet(grid, plane[grid.parents])
          = {<<2, 1>>, <<3, 2>>, <<1, 3>>, <<2, 3>>, <<3, 3>>}


\* C4: every successful screen_swap or screen_flip toggles screen->current
\* once and a failed one leaves it alone, so current is the initial index 0
\* XOR the parity of the successful calls.
C4_ToggleOncePerSuccess ==
    pc = "screen" =>
        /\ screen.current = (calls.sok + calls.fok) % 2
        /\ last.op \in {"swap", "flip"} =>
              screen.current = (IF last.ret = 0 THEN 1 - last.cur
                                ELSE last.cur)

\* swaps and flips have both succeeded and failed, the last call a failure
C4_Witness ==
    /\ pc = "screen"
    /\ calls.sok >= 1 /\ calls.sfail >= 1
    /\ calls.fok >= 1 /\ calls.ffail >= 1
    /\ last.ret < 0

\* C7 (as claimed): a buffer's pointer is non-null exactly when map_count
\* is positive; the first successful map leaves map_count = 1.
C7_PtrIffCounted ==
    (pc = "bo" /\ bo[0].live) =>
        (bo[0].ptr /= NULL <=> bo[0].map_count > 0)

\* C8: a second map with no unmap or destroy in between returns the same
\* pointer and makes no new mapping, and that mapping is gone only after
\* two unmaps or a destroy have followed.
C8_MapTwice ==
    pc = "bo" =>
        \A i \in 1 .. Len(hist) - 1 :
            (/\ hist[i].op = "map" /\ hist[i].ret = 0
             /\ hist[i + 1].op = "map" /\ hist[i + 1].ret = 0)
            => /\ hist[i + 1].ptr = hist[i].ptr
               /\ hist[i + 1].ptr /= NULL
               /\ hist[i + 1].nmmap = hist[i].nmmap
               /\ \A k \in i + 1 .. Len(hist) :
                    hist[i].ptr \notin hist[k].vma =>
                      \/ Cardinality({ j \in i + 2 .. k :
                                        hist[j].op = "unmap" }) >= 2
                      \/ \E j \in i + 2 .. k : hist[j].op = "destroy"

\* two maps in a row, then two unmaps with the mapping still in place, then
\* a destroy that released it
C8_Witness ==
    /\ pc = "bo"
    /\ Len(hist) = 5
    /\ hist[1].op = "map" /\ hist[1].ret = 0
    /\ hist[2].op = "map" /\ hist[2].ret = 0 /\ hist[2].ptr = hist[1].ptr
    /\ hist[3].op = "unmap" /\ hist[4].op = "unmap"
    /\ hist[1].ptr \in hist[4].vma
    /\ hist[5].op = "destroy"
    /\ hist[1].ptr \notin hist[5].vma


\* the pixel of buffer t at pixel row `row' and pixel column `col'
PixelAt(t, row, col) == pix[t][row * bo[t].pitch + 4 * col]

\* grid_draw has just run and its surface_lock succeeded
Drawn == pc = "main_present" /\ last.op = "draw" /\ last.ret = 0

\* the cells whose block shows white at its top left pixel in buffer t
Shown(t) ==
    { xy \in Cells(grid) :
        PixelAt(t, xy[2] * grid.scale, xy[1] * grid.scale) = WHITE }

\* C5 (as claimed): in every state after screen_create exactly one of the
\* two surfaces is scanned out, the one screen->current does not name.
C5_OneOnScreen ==
    InMain => crtc.fb = surface_id(1 - screen.current)

\* C5 (amended): once a screen_swap has succeeded the controller scans out
\* the surface screen->current does not name; until then it scans out the
\* framebuffer it had before screen_create, neither of the two surfaces.
C5_OneOnScreenAfterPresent ==
    InMain =>
        /\ calls.sok >= 1 => crtc.fb = surface_id(1 - screen.current)
        /\ calls.sok = 0 => crtc.fb = OrigFb /\ screen.current = 0

\* a present succeeded, the next one failed and the surface presented
\* first is still the one scanned out
C5_Witness ==
    /\ pc = "main_gswap"
    /\ calls.sok = 1 /\ calls.sfail = 1
    /\ last.op = "swap" /\ last.ret < 0
    /\ screen.current = 1
    /\ crtc.fb = surface_id(0)

\* C6 (as claimed): screen_swap sets the controller to the framebuffer of
\* the surface screen->current does not name when it is called.
C6_SetsInactive ==
    (pc = "main_gswap" /\ last.op = "swap") =>
        last.fb = surface_id(1 - last.cur)

\* C6 (amended): screen_swap sets the controller to the framebuffer of the
\* surface screen->current names when it is called, the one grid_draw just
\* rendered, and on success toggles current; on failure nothing changes.
C6_SetsActive ==
    (pc = "main_gswap" /\ last.op = "swap") =>
        /\ last.fb = surface_id(last.cur)
        /\ last.ret = 0 =>
              crtc.fb = last.fb /\ screen.current = 1 - last.cur
        /\ last.ret < 0 => screen.current = last.cur

\* a screen_swap called with current = 1 succeeded
C6_Witness ==
    /\ pc = "main_gswap"
    /\ last.op = "swap" /\ last.ret = 0 /\ last.cur = 1
    /\ crtc.fb = surface_id(1) /\ screen.current = 0

\* C9: grid_draw stores, for every cell (x,y) and 0 <= i,j < scale, white
\* or black by the cell's bit in the rasterized plane at pixel row
\* y*scale+j, addressed with the buffer's pitch, and column x*scale+i, and
\* stores nowhere else; the 2x2 grid with (0,0) and (1,1) live at scale 2
\* and pitch 32 gives the four rows white-white-black-black twice, then
\* black-black-white-white twice.
C9_Rasterize ==
    Drawn =>
        LET t == last.cur
            c == plane[grid.cells]
        IN  /\ \A xy \in Cells(grid) :
                 \A i \in 0 .. grid.scale - 1, j \in 0 .. grid.scale - 1 :
                    PixelAt(t, xy[2] * grid.scale + j, xy[1] * grid.scale + i)
                      = (IF CellLive(grid, c, xy[1], xy[2])
                         THEN WHITE ELSE BLACK)
            /\ written =
                 { (xy[2] * grid.scale + j) * bo[t].pitch
                      + 4 * (xy[1] * grid.scale + i) :
                   xy \in Cells(grid),
                   i \in 0 .. grid.scale - 1, j \in 0 .. grid.scale - 1 }
            /\ (/\ grid.width = 2 /\ grid.height = 2 /\ grid.scale = 2
                /\ bo[t].pitch = 32
                /\ LiveSet(grid, c) = {<<0, 0>>, <<1, 1>>})
               => \A row \in 0 .. 3, col \in 0 .. 3 :
                    PixelAt(t, row, col)
                      = (IF (row <= 1) <=> (col <= 1)
                         THEN WHITE ELSE BLACK)

\* the 2x2 scenario at scale 2 and pitch 32 has been drawn over a buffer
\* that showed another frame, and columns 4-7 were left alone
C9_Witness ==
    /\ Drawn
    /\ grid.width = 2 /\ grid.height = 2 /\ grid.scale = 2
    /\ bo[last.cur].pitch = 32
    /\ LiveSet(grid, plane[grid.cells]) = {<<0, 0>>, <<1, 1>>}
    /\ PixelAt(last.cur, 0, 0) = WHITE /\ PixelAt(last.cur, 1, 1) = WHITE
    /\ PixelAt(last.cur, 0, 2) = BLACK /\ PixelAt(last.cur, 3, 3) = WHITE
    /\ PixelAt(last.cur, 2, 0) = BLACK
    /\ written \cap {16, 20, 24, 28} = {}
    /\ gen >= 1

\* C10 (as claimed): grid_draw shows the plane grid_add_cell writes and
\* grid_tick reads (parents); a seeded grid drawn with no tick in between
\* shows the seeded pattern.
C10_DrawsParents ==
    Drawn => Shown(last.cur) = LiveSet(grid, plane[grid.parents])

\* C10 (amended): grid_draw shows the plane grid->cells, the one grid_tick
\* writes, not the one grid_add_cell writes; a freshly seeded grid drawn
\* with no tick in between shows no live cell.
C10_DrawsCells ==
    Drawn =>
        /\ Shown(last.cur) = LiveSet(grid, plane[grid.cells])
        /\ (framerate = 0 /\ gen = 0) => Shown(last.cur) = {}

\* a seeded pattern with live cells was drawn with no tick in between and
\* the buffer shows none of them
C10_Witness ==
    /\ Drawn
    /\ framerate = 0 /\ gen = 0
    /\ seed0 /= {}
    /\ LiveSet(grid, plane[grid.parents]) = seed0
    /\ Shown(last.cur) = {}

\* C11: grid_swap exchanges the two plane references and alters no byte of
\* either plane: after a tick and a swap the current plane (parents) holds
\* exactly what the tick computed from the plane that is now `cells'; after
\* one swap with no tick the seeded plane is the next plane, and after two
\* swaps with no tick both references and both contents are as seeded.
C11_SwapReferences ==
    (InMain /\ pc = "main_tick") =>
        /\ grid.parents = (gen + 1) % 2
        /\ grid.cells = gen % 2
        /\ (framerate > 0 /\ gen >= 1) =>
               plane[grid.parents] = grid_tick(grid, plane[grid.cells], {})
        /\ (framerate = 0 /\ gen = 1) =>
               /\ LiveSet(grid, plane[grid.cells]) = seed0
               /\ plane[grid.parents] = {}
        /\ (framerate = 0 /\ gen = 2) =>
               /\ grid.parents = grid_new(1, 1, 1).parents
               /\ grid.cells = grid_new(1, 1, 1).cells
               /\ LiveSet(grid, plane[grid.parents]) = seed0
               /\ plane[grid.cells] = {}

\* two swaps were made with no tick in between on a grid seeded with live
\* cells
C11_Witness ==
    /\ pc = "main_tick"
    /\ framerate = 0 /\ gen = 2
    /\ seed0 /= {}
    /\ LiveSet(grid, plane[grid.parents]) = seed0

\* the pattern of w x h cells loaded or added at the anchor lies inside the
\* grid
Fits(w, h) == arg.x + w <= grid.width /\ arg.y + h <= grid.height

\* the cells at the offsets D from the anchor
AtAnchor(D) == { <<arg.x + d[1], arg.y + d[2]>> : d \in D }

GliderOffsets == {<<1, 0>>, <<2, 1>>, <<0, 2>>, <<1, 2>>, <<2, 2>>}

LoadedStream ==
    /\ pc = "seeded" /\ pattern = "FILE"
    /\ arg.file \in {RleStream, RleStreamNl}
    /\ Fits(3, 3)

\* C12 (as claimed): loading the token stream 3o$b2o$2bo! after its header
\* line at an anchor sets live exactly the five offsets grid_add_glider
\* sets, (1,0) (2,1) (0,2) (1,2) (2,2), and no other cell.
C12_RleGlider ==
    LoadedStream => seed0 = AtAnchor(GliderOffsets)

\* C12 (amended): loading 3o$b2o$2bo! sets live exactly the six offsets
\* (0,0) (1,0) (2,0) (1,1) (2,1) (2,2) and no other bit; the stream that
\* sets exactly the offsets of grid_add_glider is bo$2bo$3o!; <n>o marks n
\* cells and advances the column, <n>b advances the column, <n>$ resets the
\* column and advances the row by n, n defaulting to 1.
C12_RleSixCells ==
    /\ LoadedStream =>
          /\ seed0 = AtAnchor({<<0, 0>>, <<1, 0>>, <<2, 0>>, <<1, 1>>,
                               <<2, 1>>, <<2, 2>>})
          /\ Cardinality(plane[grid.parents]) = 6
    /\ (pc = "seeded" /\ pattern = "FILE" /\ arg.file = RleGlider
           /\ Fits(3, 3)) =>
          /\ seed0 = AtAnchor(GliderOffsets)
          /\ plane[grid.parents] = grid_add_glider(grid, {}, arg.x, arg.y)
    /\ (pc = "seeded" /\ pattern = "FILE" /\ arg.file = RleSkip
           /\ Fits(6, 3)) =>
          /\ seed0 = AtAnchor({<<4, 2>>, <<5, 2>>})
          /\ Cardinality(plane[grid.parents]) = 2

\* the stream of the claim was loaded at an anchor that is not the origin,
\* inside the grid, and six cells are live
C12_Witness ==
    /\ LoadedStream
    /\ arg.file = RleStream
    /\ arg.x > 0 /\ arg.y > 0
    /\ Cardinality(seed0) = 6
    /\ <<arg.x, arg.y>> \in seed0

\* C13: whatever the anchor, every bit a seeding pattern sets through
\* grid_add_cell, the negative y offsets of the gun and the acorn and the x
\* offsets past the width included, lies inside the current plane: no byte
\* outside the plane_size bytes of the plane is written.
C13_AddCellStaysInPlane ==
    pc = "seeded" =>
        \A a \in plane[grid.parents] :
            0 <= a /\ a < plane_size(grid, screen.height) * 8

\* C14: a scale of 0 is rejected with an error before any grid is created
\* and before anything is divided by it; with a scale of 1 or more grid_new
\* gives width and height the truncated quotients of the pixel sizes by the
\* scale, a pitch of ceil(width / 8) bytes, and two planes with no live
\* cell.
C14_ScaleZeroRejected ==
    /\ scaleopt = 0 =>
          /\ pc \in {"run_opts", "exit"}
          /\ pc = "exit" => sys.status = "exit1"
          /\ sys.status /= "sigfpe"
          /\ grid = grid_new(0, 0, 1)
    /\ pc = "main_seed" /\ sys.master =>
          /\ scaleopt >= 1 /\ grid.scale = scaleopt
          /\ grid.width * scaleopt <= screen.width
          /\ screen.width < (grid.width + 1) * scaleopt
          /\ grid.height * scaleopt <= screen.height
          /\ screen.height < (grid.height + 1) * scaleopt
          /\ 8 * (grid.pitch - 1) < grid.width /\ grid.width <= 8 * grid.pitch
          /\ plane[grid.cells] = {} /\ plane[grid.parents] = {}
          /\ grid.cells /= grid.parents

\* -S 0 was given and the program has ended with status 1 with no screen and
\* no grid created
C14_Witness ==
    /\ scaleopt = 0
    /\ pc = "exit" /\ sys.status = "exit1"
    /\ ~sys.master
    /\ grid = grid_new(0, 0, 1)

\* screen_free has been entered
FreeEntered == sys.grid_freed /\ pc \in {"main_close", "exit"}

\* C15: screen_free makes, in this order and once each, the restoring
\* mode-set (consuming the snapshot), the destruction of both surfaces and
\* the release of master; no surface is destroyed while the controller
\* scans it out, and the snapshot taken by screen_create is there to be
\* consumed.
C15_TeardownOrder ==
    FreeEntered =>
        /\ sys.status /= "sigsegv"
        /\ original_crtc.valid /\ original_crtc.freed
        /\ Len(sys.log) = 4
        /\ [i \in 1 .. 4 |-> sys.log[i].op] =
              <<"restore", "destroy", "destroy", "dropmaster">>
        /\ {sys.log[2].fb, sys.log[3].fb} = {surface_id(0), surface_id(1)}
        /\ \A i \in 2 .. 3 : sys.log[i].scanout /= sys.log[i].fb
        /\ ~sys.master

\* C16: once done is set during the loop, the program ends with the grid
\* freed, the display showing what it showed before screen_create, master
\* released and status 0.
C16_GracefulExit ==
    (done /\ pc = "exit") =>
        /\ sys.status = "exit0"
        /\ sys.grid_freed
        /\ crtc.fb = original_crtc.buffer_id
        /\ ~sys.master

\* C17: when surface_lock fails in an iteration, nothing is stored to the
\* buffer and the buffer is not presented in that iteration; when the
\* present fails the loop goes on.
C17_LockFailureSkipsFrame ==
    (InMain /\ pc = "main_gswap" /\ written = {}) =>
        ~(last.op = "swap" /\ last.ret = 0 /\ crtc.fb = surface_id(last.cur))

\* C18: when a DESTROY_DUMB ioctl fails during screen_free, screen_free
\* returns an error to its caller.
C18_DestroyErrorSurfaced ==
    (FreeEntered /\ \E i \in DOMAIN sys.log :
                       sys.log[i].op = "destroy" /\ sys.log[i].ret < 0) =>
        sys.free_ret < 0

\* C19: in main's loop, whatever presents succeeded or failed, the buffer
\* fb[current], the one grid_draw stores to, is never the one the
\* controller scans out: neither before the draw, nor while and after it
\* until the present.
C19_DrawTargetNotScannedOut ==
    InMain =>
        /\ crtc.fb /= surface_id(screen.current)
        /\ (pc = "main_present" /\ last.op = "draw") =>
              /\ last.fb = surface_id(screen.current)
              /\ crtc.fb /= last.fb /\ crtc.flip /= last.fb

\* a frame was drawn after a present that succeeded, while the controller
\* scans out the other buffer
C19_Witness ==
    /\ pc = "main_present"
    /\ last.op = "draw" /\ last.ret = 0 /\ written /= {}
    /\ calls.sok = 1
    /\ crtc.fb = surface_id(XOR1(screen.current))

\* C20: an accepted screen_flip toggles current at once and leaves the flip
\* pending: the controller still scans out what it did, and goes over to
\* the flipped buffer only at the vertical blank.
C20_FlipTogglesAtOnce ==
    [][calls'.fok = calls.fok + 1 =>
          /\ screen'.current = XOR1(screen.current)
          /\ crtc'.flip = surface_id(screen.current)
          /\ crtc'.fb = crtc.fb]_vars

\* a flip is pending and the buffer named by current, the caller's next
\* render target, is the one still scanned out
C20_Witness ==
    /\ pc = "screen"
    /\ last.op = "flip" /\ last.ret = 0
    /\ crtc.flip /= NoFb
    /\ crtc.fb = surface_id(screen.current)

\* the successor of the set L of live cells on the torus of grid g, by the
\* rule B3/S23
Successor(g, L) ==
    { xy \in Cells(g) :
        LET n == Cardinality({ d \in NeighbourOffsets :
                     <<(xy[1] + d[1]) % g.width, (xy[2] + d[2]) % g.height>>
                        \in L })
        IN  IF xy \in L THEN n \in {2, 3} ELSE n = 3 }

\* generation k of the seeded pattern
RECURSIVE Generation(_)
Generation(k) ==
    IF k = 0 THEN seed0 ELSE Successor(grid, Generation(k - 1))

\* iteration gen + 1 has just presented its frame; simulation is enabled
\* and every present and every lock of the buffer presented has succeeded
PresentedAllOk ==
    /\ InMain /\ pc = "main_gswap"
    /\ framerate > 0
    /\ last.op = "swap" /\ last.ret = 0
    /\ calls.sfail = 0 /\ calls.sok = gen + 1
    /\ written /= {}
    /\ crtc.fb = surface_id(last.cur)

\* C21: with simulation enabled and every lock and present succeeding, the
\* frame presented in iteration k >= 1 shows exactly generation k of the
\* seeded pattern, and the other buffer, presented in iteration k - 1, still
\* shows generation k - 1: each iteration presents the successor of what the
\* previous one presented, starting from generation 1, not from the seed.
C21_FrameShowsGeneration ==
    PresentedAllOk =>
        /\ Shown(last.cur) = Generation(gen + 1)
        /\ last.cur = gen % 2
        /\ (gen >= 1 /\ bo[XOR1(last.cur)].ptr /= NULL) =>
              Shown(XOR1(last.cur)) = Generation(gen)

\* iteration 2 has presented generation 2 while the other buffer shows
\* generation 1, for a seed whose generations 0, 1 and 2 all differ
C21_Witness ==
    /\ PresentedAllOk
    /\ gen = 1
    /\ bo[XOR1(last.cur)].ptr /= NULL
    /\ Shown(last.cur) = Generation(2)
    /\ Shown(XOR1(last.cur)) = Generation(1)
    /\ Generation(2) /= Generation(1)
    /\ Generation(2) /= seed0 /\ Generation(1) /= seed0

====
